---- MODULE Spec2Model ----
(***************************************************************************)
(* A model of src/main.py: the ZDNet Japan / ZDNet Korea crawler that      *)
(* collects the articles of the last 24 hours from two listing pages,      *)
(* drops the URLs already recorded in sent_articles.json, sends the rest  *)
(* to Telegram and saves the store.                                        *)
(*                                                                         *)
(* Time is counted in minutes.  An optional value (Python's None or a      *)
(* value) is a sequence of length 0 or 1.                                  *)
(***************************************************************************)
EXTENDS Integers, Sequences, FiniteSets, TLC

\* ------------------------------------------------------------------ bounds
\* Runs of main() the scheduler starts.
MaxRuns == 2
\* Minutes the clock may advance.
MaxClock == 1
\* Elements at the level of the section heading in a listing document.
MaxDocLen == 3

\* ------------------------------------------------------- program constants
\* timedelta(hours=24), in minutes.
Window == 1440
\* timedelta(hours=9), in minutes.
TzOffset == 540
\* len(title) < 8 is dropped by the Japanese extractor.
MinTitleLen == 8

None == << >>
Some(x) == << x >>

\* ------------------------------------------------------------- documents
JP == "zdnet_jp"
KR == "zdnet_kr_ai"
\* Hosts of JAPAN_SOFTWARE_URL and KOREA_AI_URL.
JAPAN_SOFTWARE_URL == "japan.zdnet.com"
KOREA_AI_URL == "zdnet.co.kr"

\* tag.name in ["h2", "h3"]
IsHeading(tag) == tag.name \in {"h2", "h3"}

\* The texts a heading carries, by the markers the code looks for:
\* "new" starts with 新着, "ai" contains 인공지능 최신뉴스, "hot" contains
\* 지금 뜨는 기사, "other" holds none of them.
HeadingTexts == {"new", "ai", "hot", "other"}

\* Paths of hrefs; the first two contain "/view/?no=".
ViewPaths == {"/view/?no=1", "/view/?no=2"}
OtherPaths == {"/article/3"}

\* urljoin(base_url, href): a relative href (host "") takes the base's host,
\* an absolute href keeps its own.
urljoin(base_url, href) ==
    [host |-> IF href.host = "" THEN base_url ELSE href.host, path |-> href.path]

\* An anchor element: whether it has an href attribute, the href, and the
\* length of a.get_text(strip=True).
Anchor(has_href, host, path, title_len) ==
    [has_href |-> has_href, href |-> [host |-> host, path |-> path],
     title_len |-> title_len]

\* An element at the level of the section heading: its tag name, for a
\* heading its text, and the anchors among its descendants in document order
\* (what sibling.find_all("a") walks).
Tag(name, text, anchors) == [name |-> name, text |-> text, anchors |-> anchors]

\* A candidate article as the extractors build it.  published_at is set by
\* the collectors; title_ko is "absent" (no such key), "title" (a text) or
\* "None" (translation failed).
Item(source, url, title_ko) ==
    [source |-> source, url |-> url, published_at |-> None, title_ko |-> title_ko]

\* soup.find(lambda tag: ...): of the positions of the elements that satisfy
\* the predicate, the first one; 0 (Python's None) when there is none.
find(matches) ==
    IF matches = {} THEN 0
    ELSE CHOOSE x \in matches : \A y \in matches : x <= y

\* ------------------------------------------- extract_new_articles_jp_list
jp_is_header(tag) == IsHeading(tag) /\ tag.text = "new"

\* The body of "for a in sibling.find_all('a', href=True)" for one sibling.
jp_anchor_kept(a) ==
    /\ a.has_href
    /\ a.title_len # 0
    /\ ~(a.title_len < MinTitleLen)

jp_sibling_articles(sibling, base_url) ==
    LET kept == SelectSeq(sibling.anchors, jp_anchor_kept)
    IN  [k \in 1..Len(kept) |-> Item(JP, urljoin(base_url, kept[k].href), "absent")]

\* "for sibling in header.find_next_siblings()", from sibling i on.
RECURSIVE jp_siblings_loop(_, _, _, _)
jp_siblings_loop(soup, i, base_url, articles) ==
    IF i > Len(soup) THEN articles
    ELSE IF IsHeading(soup[i]) THEN articles
    ELSE jp_siblings_loop(soup, i + 1, base_url,
                          articles \o jp_sibling_articles(soup[i], base_url))

extract_new_articles_jp_list(soup, base_url) ==
    LET header == find({k \in 1..Len(soup) : jp_is_header(soup[k])})
    IN  IF header = 0 THEN << >>
        ELSE jp_siblings_loop(soup, header + 1, base_url, << >>)

\* ---------------------------------------- extract_new_articles_kr_ai_list
kr_is_header(tag) == IsHeading(tag) /\ tag.text = "ai"

\* A faulty variant: any heading ends the section, as in the Japanese extractor.
kr_is_stop_any_heading(tag) == IsHeading(tag)

kr_is_stop(tag) == IsHeading(tag) /\ tag.text = "hot"

kr_anchor_kept(a) ==
    /\ a.has_href
    /\ a.href.path \in ViewPaths
    /\ a.title_len # 0

kr_sibling_articles(sibling, base_url) ==
    LET kept == SelectSeq(sibling.anchors, kr_anchor_kept)
    IN  [k \in 1..Len(kept) |-> Item(KR, urljoin(base_url, kept[k].href), "title")]

RECURSIVE kr_siblings_loop(_, _, _, _)
kr_siblings_loop(soup, i, base_url, articles) ==
    IF i > Len(soup) THEN articles
    ELSE IF kr_is_stop(soup[i]) THEN articles
    ELSE kr_siblings_loop(soup, i + 1, base_url,
                          articles \o kr_sibling_articles(soup[i], base_url))

extract_new_articles_kr_ai_list(soup, base_url) ==
    LET header == find({k \in 1..Len(soup) : kr_is_header(soup[k])})
    IN  IF header = 0 THEN << >>
        ELSE kr_siblings_loop(soup, header + 1, base_url, << >>)

\* ------------------------------------------------------ the persisted store
\* sent_articles.json as the program finds it: absent ("missing"), present
\* but not openable ("unreadable"), not JSON, e.g. empty or cut short
\* ("garbage"), a JSON object url -> timestamp ("dict", in dict), or a JSON
\* array of urls ("list", in list).
EmptyStore == [u \in {} |-> 0]

StoreFile(kind, dict, list) == [kind |-> kind, dict |-> dict, list |-> list]

DictFile(data) == StoreFile("dict", data, << >>)

ListFile(urls) == StoreFile("list", EmptyStore, urls)

NoDataFile(kind) == StoreFile(kind, EmptyStore, << >>)

\* A faulty variant: the object read from the file is dropped.
load_sent_storage_forgets(f) == [raised |-> FALSE, data |-> EmptyStore]

\* A faulty variant: no try/except around open and json.load.
load_sent_storage_raises(f) ==
    IF f.kind = "missing" THEN [raised |-> FALSE, data |-> EmptyStore]
    ELSE IF f.kind \in {"unreadable", "garbage"}
         THEN [raised |-> TRUE, data |-> EmptyStore]
    ELSE IF f.kind = "dict" THEN [raised |-> FALSE, data |-> f.dict]
    ELSE [raised |-> FALSE, data |-> EmptyStore]

\* load_sent_storage(): the value returned, and whether an exception escapes.
load_sent_storage(f) ==
    IF f.kind = "missing" THEN [raised |-> FALSE, data |-> EmptyStore]
    ELSE IF f.kind \in {"unreadable", "garbage"}
         THEN [raised |-> FALSE, data |-> EmptyStore]
    ELSE IF f.kind = "dict" THEN [raised |-> FALSE, data |-> f.dict]
    ELSE [raised |-> FALSE, data |-> EmptyStore]

\* save_sent_storage(data) when nothing interrupts it.
save_sent_storage(data) == DictFile(data)

\* What save_sent_storage(data) can leave behind when it is interrupted:
\* open(..., "w") has not run yet (the old file), it has truncated the file
\* and json.dump has written none or part of the text, or the text is
\* complete.
save_interrupted(old, data) ==
    {old, NoDataFile("garbage"), DictFile(data)}

\* sent_storage[url] = value
store_put(store, url, value) ==
    [u \in DOMAIN store \cup {url} |-> IF u = url THEN value ELSE store[u]]

\* A faulty variant: the membership test is missing.
already_sent_never(url, store) == FALSE

\* "if url in sent_storage": the candidate is skipped.
already_sent(url, store) == url \in DOMAIN store

\* -------------------------------------------------------------- recency
\* A faulty variant: the lower edge of the window is excluded.
is_within_last_24h_strict(d, utc) ==
    IF d = None THEN FALSE
    ELSE LET now_local == utc + TzOffset
             cutoff == now_local - Window
         IN  cutoff < d[1] /\ d[1] <= now_local

is_within_last_24h(d, utc) ==
    IF d = None THEN FALSE
    ELSE LET now_local == utc + TzOffset
             cutoff == now_local - Window
         IN  cutoff <= d[1] /\ d[1] <= now_local

\* ----------------------------------------------------------- detail pages
\* What fetch_html(article_url) gives for a detail page: a failure, or a page
\* whose first date text is absent, matches the pattern with impossible
\* calendar values, or is the minute t.
Stamp(found, valid, t) == [found |-> found, valid |-> valid, t |-> t]

NoStamp == Stamp(FALSE, FALSE, 0)

BadStamp == Stamp(TRUE, FALSE, 0)

\* Publication times around the edges of the window of a run starting at
\* clock 0: 24 h and a minute ago, exactly 24 h ago, a minute ahead.
PublishedTimes == {TzOffset - Window - 1, TzOffset - Window, TzOffset + 1}

\* Japanese detail pages: the first text matching \d{4}-\d{2}-\d{2}\s+\d{2}:\d{2}.
DetailPagesJP ==
    {[ok |-> FALSE, stamp |-> NoStamp]}
    \cup {[ok |-> TRUE, stamp |-> st] :
            st \in {NoStamp, BadStamp} \cup {Stamp(TRUE, TRUE, t) : t \in PublishedTimes}}

\* Korean detail pages: the date after the label 입력 (input) and the date
\* after 수정 (modified).
DetailPagesKR ==
    {[ok |-> FALSE, input |-> NoStamp, modified |-> NoStamp]}
    \cup {[ok |-> TRUE, input |-> st, modified |-> NoStamp] :
            st \in {NoStamp, BadStamp}}
    \cup {[ok |-> TRUE, input |-> NoStamp, modified |-> Stamp(TRUE, TRUE, TzOffset)]}
    \cup {[ok |-> TRUE, input |-> Stamp(TRUE, TRUE, t),
           modified |-> Stamp(TRUE, TRUE, t + 2)] : t \in PublishedTimes}

\* datetime.strptime on the matched text: None when there is no match or on
\* a ValueError.
parse_stamp(st) ==
    IF ~st.found THEN None
    ELSE IF ~st.valid THEN None
    ELSE Some(st.t)

fetch_published_at_jp(page) ==
    IF ~page.ok THEN None ELSE parse_stamp(page.stamp)

fetch_published_at_kr(page) ==
    IF ~page.ok THEN None ELSE parse_stamp(page.input)

\* A faulty variant: a candidate without a timestamp ends the batch collected so far.
collect_item_drops_batch(recent_, item, d, utc) ==
    IF d = None THEN << >>
    ELSE IF utc + TzOffset - Window <= d[1] /\ d[1] <= utc + TzOffset
         THEN Append(recent_, [item EXCEPT !.published_at = d])
         ELSE recent_

\* The body of the loop "for item in candidates" of both collectors: the new
\* value of recent.
collect_item(recent_, item, d, utc) ==
    IF d = None THEN recent_
    ELSE IF is_within_last_24h(d, utc)
         THEN Append(recent_, [item EXCEPT !.published_at = d])
         ELSE recent_

\* ---------------------------------------------------------- listing pages
aV1 == Anchor(TRUE, "", "/view/?no=1", MinTitleLen)
aV2 == Anchor(TRUE, "", "/view/?no=2", MinTitleLen)
aP3 == Anchor(TRUE, "", "/article/3", MinTitleLen)
aShort == Anchor(TRUE, "", "/view/?no=2", MinTitleLen - 1)
aNoHref == Anchor(FALSE, "", "/view/?no=1", MinTitleLen)
aEmpty == Anchor(TRUE, "", "/view/?no=1", 0)
aAbsJP == Anchor(TRUE, JAPAN_SOFTWARE_URL, "/view/?no=1", MinTitleLen)

Div(anchors) == Tag("div", "", anchors)

\* What fetch_html(JAPAN_SOFTWARE_URL) can return: the section 新着 with two
\* articles followed by another section; the section with the same href
\* twice and a short icon link; a page without the section.
ListingPagesJP ==
    { << Tag("h2", "new", << >>), Div(<< aV1, aP3 >>),
         Tag("h2", "other", << >>), Div(<< aV2 >>) >>,
      << Tag("h3", "new", << >>), Div(<< aV1, aShort, aV1 >>) >>,
      << Div(<< aV1 >>) >> }

\* What fetch_html(KOREA_AI_URL) can return: the section 인공지능 최신뉴스
\* closed by 지금 뜨는 기사; the section with a link to the Japanese site and
\* another heading inside it.
ListingPagesKR ==
    { << Tag("h2", "ai", << >>), Div(<< aV1, aP3 >>),
         Tag("h2", "hot", << >>), Div(<< aV2 >>) >>,
      << Tag("h2", "ai", << >>), Div(<< aAbsJP >>),
         Tag("h3", "other", << >>), Div(<< aV2 >>) >> }

\* The store files a first run can find: none, an empty object, an object
\* with one URL, the legacy array with one URL.
InitialFiles ==
    LET u == urljoin(JAPAN_SOFTWARE_URL, aV1.href)
    IN  { NoDataFile("missing"), DictFile(EmptyStore),
          DictFile(store_put(EmptyStore, u, 0)), ListFile(<< u >>) }

\* Documents of the extractor specification: up to MaxDocLen elements, each
\* a heading (with or without a link inside it) or a container of links.
DocAnchors == {aV1, aShort, aP3}

DocElements ==
    {Tag("h2", t, a) : t \in HeadingTexts, a \in {<< >>, << aV1 >>}}
    \cup {Tag("h3", t, << >>) : t \in HeadingTexts}
    \cup {Div(<< >>), Div(<< aNoHref >>), Div(<< aEmpty >>)}
    \cup {Div(<< a >>) : a \in DocAnchors}
    \cup {Div(<< a, b >>) : a \in DocAnchors, b \in DocAnchors}

Documents == UNION {[1..n -> DocElements] : n \in 0..MaxDocLen}

UrlSet(items) == {items[k].url : k \in 1..Len(items)}

Range(s) == {s[k] : k \in 1..Len(s)}

\* ------------------------------------------------------------------ state
VARIABLES
    file,            \* sent_articles.json
    utcnow,          \* datetime.utcnow(), minutes
    pc,              \* where main() is: "idle" before a run, then the steps,
                     \* then "done", "aborted" (uncaught exception), "crashed"
    raised,          \* the uncaught exception of the run, "none" if none
    runs,            \* the runs started
    sent_storage,    \* main(): sent_storage
    candidates,      \* collect_recent_articles_*: candidates
    i,               \* the position of the running for loop
    dt,              \* collect_recent_articles_*: dt
    recent,          \* collect_recent_articles_*: recent
    jp_articles,     \* main(): jp_articles
    all_candidates,  \* main(): all_candidates
    new_items,       \* main(): new_items
    verdicts,        \* history: per processed candidate, whether its detail
                     \* page resolved to a timestamp inside the window
    dispatched,      \* history: the urls posted to Telegram in this run
    delivered,       \* history: the urls Telegram accepted in this run
    persisted,       \* history: the urls recorded and saved by earlier runs
                     \* into a file not lost or corrupted since
    prevOk,          \* history: the previous run completed and the file was
                     \* not touched since
    prevAll,         \* history: the urls of its all_candidates
    soup,            \* extractor specification: the parsed document
    extracted        \* extractor specification: the results, None before

vars == << file, utcnow, pc, raised, runs, sent_storage, candidates, i, dt,
           recent, jp_articles, all_candidates, new_items, verdicts,
           dispatched, delivered, persisted, prevOk, prevAll, soup, extracted >>

locals == << sent_storage, candidates, i, dt, recent, jp_articles,
             all_candidates, new_items >>

history == << verdicts, dispatched, delivered, persisted, prevOk, prevAll >>

Running == {"load", "jp_fetch", "jp_loop", "jp_filter", "kr_fetch", "kr_loop",
            "kr_filter", "dedup", "send", "save"}

\* The locals of a process that has not started or has ended.
NoLocals ==
    /\ sent_storage = EmptyStore
    /\ candidates = << >>
    /\ i = 0
    /\ dt = None
    /\ recent = << >>
    /\ jp_articles = << >>
    /\ all_candidates = << >>
    /\ new_items = << >>
    /\ verdicts = << >>
    /\ dispatched = << >>
    /\ delivered = {}

PipelineIdle ==
    /\ utcnow = 0
    /\ pc = "idle"
    /\ raised = "none"
    /\ runs = 0
    /\ NoLocals
    /\ prevOk = FALSE
    /\ prevAll = {}

Init ==
    /\ file \in InitialFiles
    /\ persisted = DOMAIN file.dict
    /\ PipelineIdle
    /\ soup = << >>
    /\ extracted = [jp |-> None, kr |-> None]

\* ------------------------------------------------------------------- main
\* The process ends: its locals are gone.
EndRun(how, exc) ==
    /\ pc' = how
    /\ raised' = exc
    /\ sent_storage' = EmptyStore
    /\ candidates' = << >>
    /\ i' = 0
    /\ dt' = None
    /\ recent' = << >>
    /\ jp_articles' = << >>
    /\ all_candidates' = << >>
    /\ new_items' = << >>
    /\ verdicts' = << >>
    /\ dispatched' = << >>
    /\ delivered' = {}

\* An uncaught exception ends main().
Abort(exc) ==
    /\ EndRun("aborted", exc)
    /\ prevOk' = FALSE
    /\ prevAll' = {}
    /\ UNCHANGED << file, utcnow, runs, persisted, soup, extracted >>

\* main() returns.
Return ==
    /\ EndRun("done", "none")
    /\ prevOk' = TRUE
    /\ prevAll' = UrlSet(all_candidates)

CanStart == pc \in {"idle", "done", "aborted", "crashed"} /\ runs < MaxRuns

\* ensure_config() raises ConfigError: a required variable is missing.
Main_ensure_config_fails ==
    /\ CanStart
    /\ runs' = runs + 1
    /\ EndRun("aborted", "ConfigError")
    /\ prevOk' = FALSE
    /\ prevAll' = {}
    /\ UNCHANGED << file, utcnow, persisted, soup, extracted >>

\* The scheduler starts main() and ensure_config() passes.
Main_ensure_config ==
    /\ CanStart
    /\ runs' = runs + 1
    /\ pc' = "load"
    /\ raised' = "none"
    /\ UNCHANGED << file, utcnow, locals, history, soup, extracted >>

\* sent_storage = load_sent_storage()
Main_load ==
    /\ pc = "load"
    /\ LET r == load_sent_storage(file)
       IN  IF r.raised
           THEN Abort("load_sent_storage")
           ELSE /\ sent_storage' = r.data
                /\ pc' = "jp_fetch"
                /\ UNCHANGED << file, utcnow, raised, runs, candidates, i, dt,
                                recent, jp_articles, all_candidates, new_items,
                                history, soup, extracted >>

\* ---------------------------------------------- collect_recent_articles_*
\* html = fetch_html(listing url) raises: nothing catches it up to main().
Collect_fetch_fails(at, exc) ==
    /\ pc = at
    /\ Abort(exc)

\* html = fetch_html(listing url); candidates = extract(html, url); recent = []
Collect_fetch(at, next, found) ==
    /\ pc = at
    /\ candidates' = found
    /\ recent' = << >>
    /\ verdicts' = << >>
    /\ i' = 1
    /\ pc' = next
    /\ UNCHANGED << file, utcnow, raised, runs, sent_storage, dt, jp_articles,
                    all_candidates, new_items, dispatched, delivered,
                    persisted, prevOk, prevAll, soup, extracted >>

\* dt = fetch_published_at_*(url) for the next candidate.
Collect_resolve(at, next, d) ==
    /\ pc = at
    /\ i <= Len(candidates)
    /\ dt' = d
    /\ pc' = next
    /\ UNCHANGED << file, utcnow, raised, runs, sent_storage, candidates, i,
                    recent, jp_articles, all_candidates, new_items, history,
                    soup, extracted >>

\* The rest of the loop body: skip on "not dt", else set published_at and
\* keep the item when it is inside the window.
Collect_filter(at, next) ==
    /\ pc = at
    /\ recent' = collect_item(recent, candidates[i], dt, utcnow)
    /\ verdicts' = Append(verdicts, dt # None /\ is_within_last_24h(dt, utcnow))
    /\ i' = i + 1
    /\ dt' = None
    /\ pc' = next
    /\ UNCHANGED << file, utcnow, raised, runs, sent_storage, candidates,
                    jp_articles, all_candidates, new_items, dispatched,
                    delivered, persisted, prevOk, prevAll, soup, extracted >>

CollectJP_fetch_fails == Collect_fetch_fails("jp_fetch", "jp_listing")

CollectJP_fetch ==
    \E html \in ListingPagesJP :
        Collect_fetch("jp_fetch", "jp_loop",
                      extract_new_articles_jp_list(html, JAPAN_SOFTWARE_URL))

CollectJP_resolve ==
    \E page \in DetailPagesJP :
        Collect_resolve("jp_loop", "jp_filter", fetch_published_at_jp(page))

CollectJP_filter == Collect_filter("jp_filter", "jp_loop")

\* return recent; jp_articles = collect_recent_articles_jp()
CollectJP_return ==
    /\ pc = "jp_loop"
    /\ i > Len(candidates)
    /\ jp_articles' = recent
    /\ pc' = "kr_fetch"
    /\ UNCHANGED << file, utcnow, raised, runs, sent_storage, candidates, i, dt,
                    recent, all_candidates, new_items, history, soup, extracted >>

CollectKR_fetch_fails == Collect_fetch_fails("kr_fetch", "kr_listing")

CollectKR_fetch ==
    \E html \in ListingPagesKR :
        Collect_fetch("kr_fetch", "kr_loop",
                      extract_new_articles_kr_ai_list(html, KOREA_AI_URL))

CollectKR_resolve ==
    \E page \in DetailPagesKR :
        Collect_resolve("kr_loop", "kr_filter", fetch_published_at_kr(page))

CollectKR_filter == Collect_filter("kr_filter", "kr_loop")

\* return recent; kr_articles = ...; all_candidates = jp_articles + kr_articles
CollectKR_return ==
    /\ pc = "kr_loop"
    /\ i > Len(candidates)
    /\ all_candidates' = jp_articles \o recent
    /\ new_items' = << >>
    /\ i' = 1
    /\ pc' = "dedup"
    /\ UNCHANGED << file, utcnow, raised, runs, sent_storage, candidates, dt,
                    recent, jp_articles, history, soup, extracted >>

\* ------------------------------------------------- main(): dedup and send
\* translate_title_ja_to_ko: a text, or None on any exception.
Translations(item) ==
    IF item.source = JP THEN {"title", "None"} ELSE {item.title_ko}

\* One turn of "for item in all_candidates".
Main_dedup ==
    /\ pc = "dedup"
    /\ i <= Len(all_candidates)
    /\ LET item == all_candidates[i]
           url == item.url
       IN  IF already_sent(url, sent_storage)
           THEN UNCHANGED << sent_storage, new_items >>
           ELSE \E ko \in Translations(item) :
                  /\ sent_storage' = store_put(sent_storage, url, utcnow)
                  /\ new_items' = Append(new_items, [item EXCEPT !.title_ko = ko])
    /\ i' = i + 1
    /\ UNCHANGED << file, utcnow, pc, raised, runs, candidates, dt, recent,
                    jp_articles, all_candidates, history, soup, extracted >>

\* "if not new_items: return"
Main_nothing_new ==
    /\ pc = "dedup"
    /\ i > Len(all_candidates)
    /\ new_items = << >>
    /\ Return
    /\ UNCHANGED << file, utcnow, runs, persisted, soup, extracted >>

\* send_to_telegram(new_items) is entered.
Main_send ==
    /\ pc = "dedup"
    /\ i > Len(all_candidates)
    /\ new_items # << >>
    /\ pc' = "send"
    /\ i' = 1
    /\ UNCHANGED << file, utcnow, raised, runs, sent_storage, candidates, dt,
                    recent, jp_articles, all_candidates, new_items, history,
                    soup, extracted >>

\* One turn of the loop of send_to_telegram: the POST is answered ok, answered
\* not ok, or raises; the last two are printed and the loop goes on.
SendOutcomes == {"ok", "not_ok", "exception"}

send_to_telegram_item ==
    /\ pc = "send"
    /\ i <= Len(new_items)
    /\ \E resp \in SendOutcomes :
          delivered' = IF resp = "ok" THEN delivered \cup {new_items[i].url}
                       ELSE delivered
    /\ dispatched' = Append(dispatched, new_items[i].url)
    /\ i' = i + 1
    /\ UNCHANGED << file, utcnow, pc, raised, runs, sent_storage, candidates, dt,
                    recent, jp_articles, all_candidates, new_items, verdicts,
                    persisted, prevOk, prevAll, soup, extracted >>

send_to_telegram_return ==
    /\ pc = "send"
    /\ i > Len(new_items)
    /\ pc' = "save"
    /\ UNCHANGED << file, utcnow, raised, runs, locals, history, soup, extracted >>

\* save_sent_storage(sent_storage) completes and main() returns.
Main_save ==
    /\ pc = "save"
    /\ file' = save_sent_storage(sent_storage)
    /\ persisted' = persisted \cup UrlSet(new_items)
    /\ Return
    /\ UNCHANGED << utcnow, runs, soup, extracted >>

\* The process is stopped inside save_sent_storage.
Main_save_interrupted ==
    /\ pc = "save"
    /\ \E f \in save_interrupted(file, sent_storage) :
          /\ file' = f
          /\ persisted' = IF f.kind # "dict" THEN {}
                          ELSE IF f = file THEN persisted
                          ELSE persisted \cup UrlSet(new_items)
    /\ EndRun("crashed", "none")
    /\ prevOk' = FALSE
    /\ prevAll' = {}
    /\ UNCHANGED << utcnow, runs, soup, extracted >>

\* The process is stopped anywhere else.
Crash ==
    /\ pc \in Running \ {"save"}
    /\ EndRun("crashed", "none")
    /\ prevOk' = FALSE
    /\ prevAll' = {}
    /\ UNCHANGED << file, utcnow, runs, persisted, soup, extracted >>

\* ------------------------------------------------------------ environment
\* A minute passes.
Tick ==
    /\ utcnow < MaxClock
    /\ utcnow' = utcnow + 1
    /\ UNCHANGED << file, pc, raised, runs, locals, history, soup, extracted >>

\* Between two runs the store file is lost, made unreadable or corrupted.
DamageFile ==
    /\ pc \notin Running
    /\ \E kind \in {"missing", "unreadable", "garbage"} :
          /\ file.kind # kind
          /\ file' = NoDataFile(kind)
    /\ persisted' = {}
    /\ prevOk' = FALSE
    /\ prevAll' = {}
    /\ UNCHANGED << utcnow, pc, raised, runs, locals, verdicts, dispatched,
                    delivered, soup, extracted >>

Next ==
    \/ Main_ensure_config_fails
    \/ Main_ensure_config
    \/ Main_load
    \/ CollectJP_fetch_fails
    \/ CollectJP_fetch
    \/ CollectJP_resolve
    \/ CollectJP_filter
    \/ CollectJP_return
    \/ CollectKR_fetch_fails
    \/ CollectKR_fetch
    \/ CollectKR_resolve
    \/ CollectKR_filter
    \/ CollectKR_return
    \/ Main_dedup
    \/ Main_nothing_new
    \/ Main_send
    \/ send_to_telegram_item
    \/ send_to_telegram_return
    \/ Main_save
    \/ Main_save_interrupted
    \/ Crash
    \/ Tick
    \/ DamageFile

Spec == Init /\ [][Next]_vars

\* ------------------------------------------------ extractor specification
\* The two extractors applied to one document drawn from Documents.
InitExtract ==
    /\ file = NoDataFile("missing")
    /\ persisted = {}
    /\ PipelineIdle
    /\ soup \in Documents
    /\ extracted = [jp |-> None, kr |-> None]

pipeline == << file, utcnow, pc, raised, runs, locals, history >>

ExtractJP ==
    /\ extracted.jp = None
    /\ extracted' = [extracted EXCEPT
                       !.jp = Some(extract_new_articles_jp_list(soup, JAPAN_SOFTWARE_URL))]
    /\ UNCHANGED << pipeline, soup >>

ExtractKR ==
    /\ extracted.kr = None
    /\ extracted' = [extracted EXCEPT
                       !.kr = Some(extract_new_articles_kr_ai_list(soup, KOREA_AI_URL))]
    /\ UNCHANGED << pipeline, soup >>

NextExtract == ExtractJP \/ ExtractKR

SpecExtract == InitExtract /\ [][NextExtract]_vars

\* ================================================================ claims
NowLocal == utcnow + TzOffset

\* The urls of the items at the positions flagged TRUE, in order.
RECURSIVE KeptUrls(_, _)
KeptUrls(items, flags) ==
    IF flags = << >> THEN << >>
    ELSE LET n == Len(flags)
         IN  KeptUrls(SubSeq(items, 1, n - 1), SubSeq(flags, 1, n - 1))
             \o (IF flags[n] THEN << items[n].url >> ELSE << >>)

Urls(items) == [k \in 1..Len(items) |-> items[k].url]

NoDuplicates(s) == \A a, b \in 1..Len(s) : a # b => s[a] # s[b]

\* The urls a store file holds, in either shape.
StoredUrls(f) == DOMAIN f.dict \cup Range(f.list)

\* ---- C1 ----------------------------------------------------------------
\* A url posted in this step was not recorded and saved by an earlier run.
C1_PostedUrlIsNew ==
    Len(dispatched') > Len(dispatched)
        => dispatched'[Len(dispatched')] \notin persisted

\* A run whose candidates are those of the completed run before it has
\* nothing new and posts nothing.
C1_SameInputPostsNothing ==
    (prevOk /\ pc \in {"dedup", "send", "save"} /\ UrlSet(all_candidates) = prevAll)
        => (new_items = << >> /\ dispatched = << >>)

\* C1: a url that an earlier run recorded and saved, in a file not lost or
\* corrupted since, is never posted again; and a run whose candidates are
\* those of the completed run before it posts nothing.
C1_NeverRedelivered == [][C1_PostedUrlIsNew]_vars /\ []C1_SameInputPostsNothing

\* A second run that found, for a Korean article recorded by the first run,
\* the same candidates again and skipped them all.
C1_Witness ==
    /\ runs = 2
    /\ prevOk
    /\ pc = "dedup"
    /\ i > Len(all_candidates)
    /\ UrlSet(all_candidates) = prevAll
    /\ \E k \in 1..Len(all_candidates) :
          /\ all_candidates[k].source = KR
          /\ all_candidates[k].url \in persisted
    /\ new_items = << >>

\* ---- C2 ----------------------------------------------------------------
\* C2: every url a completed save adds to the file was accepted by Telegram
\* in this run.
C2_SavedOnlyIfDelivered ==
    [][(pc = "save" /\ pc' = "done")
          => (DOMAIN file'.dict \ StoredUrls(file)) \subseteq delivered]_vars

\* ---- C3 ----------------------------------------------------------------
\* C3: a failed listing fetch of one source never ends the run: no run is
\* aborted by the exception of a listing fetch.
C3_ListingFailureIsolated ==
    ~(pc = "aborted" /\ raised \in {"jp_listing", "kr_listing"})

\* ---- C4 ----------------------------------------------------------------
\* C4: whatever happens to the process inside save_sent_storage, the file
\* holds afterwards the complete previous content or the complete new one.
C4_SaveNeverTruncates ==
    [][pc = "save" => file' \in {file, DictFile(sent_storage)}]_vars

\* ---- C5 ----------------------------------------------------------------
\* C5: load_sent_storage never raises, and for a missing, unreadable or
\* non-JSON file the run goes on with an empty store.
C5_LoadNeverRaises ==
    /\ raised # "load_sent_storage"
    /\ (pc = "jp_fetch" /\ file.kind \in {"missing", "unreadable", "garbage"})
          => sent_storage = EmptyStore

\* A run that found a corrupt file and went on to post and to the save.
C5_Witness ==
    /\ pc = "save"
    /\ file.kind = "garbage"
    /\ dispatched # << >>

\* ---- C6 ----------------------------------------------------------------
\* C6: after the load, the store holds every url of the file, whether the
\* file is the legacy array or the object, and none of them is posted.
C6_BothShapesLoaded ==
    (pc \in Running \ {"load"} /\ file.kind \in {"list", "dict"})
        => /\ StoredUrls(file) \subseteq DOMAIN sent_storage
           /\ Range(dispatched) \cap StoredUrls(file) = {}

\* ---- C7 ----------------------------------------------------------------
\* The filter step keeps the candidate iff its timestamp is not None and
\* lies in [now - 24 h, now].
C7_FilterStep ==
    (pc \in {"jp_filter", "kr_filter"} /\ pc' \in {"jp_loop", "kr_loop"})
        => LET inside == /\ dt # None
                         /\ NowLocal - Window <= dt[1]
                         /\ dt[1] <= NowLocal
           IN  /\ inside => recent' = Append(recent, [candidates[i] EXCEPT
                                                        !.published_at = dt])
               /\ ~inside => recent' = recent

\* Items reach jp_articles, all_candidates and new_items only from recent,
\* and recent grows only in the filter step.
C7_OnlyThroughFilter ==
    /\ recent' # recent => (recent' = << >> \/ pc \in {"jp_filter", "kr_filter"})
    /\ jp_articles' # jp_articles => jp_articles' \in {recent, << >>}
    /\ all_candidates' # all_candidates
          => all_candidates' \in {jp_articles \o recent, << >>}
    /\ new_items' # new_items
          => \/ new_items' = << >>
             \/ \E ko \in {"title", "None"} :
                   new_items' = Append(new_items, [all_candidates[i] EXCEPT
                                                     !.title_ko = ko])

\* What reached the merge or the dispatch has a timestamp, not in the future.
C7_ReachedDedupInWindow ==
    \A item \in Range(jp_articles) \cup Range(all_candidates) \cup Range(new_items) :
        /\ item.published_at # None
        /\ item.published_at[1] <= NowLocal

\* C7: a candidate is kept by the filter step iff its timestamp is not None
\* and now - 24 h <= timestamp <= now, now being the clock + 9 h read at the
\* test; candidates reach dedup and dispatch only through that step.
C7_Recency ==
    /\ [][C7_FilterStep]_vars
    /\ [][C7_OnlyThroughFilter]_vars
    /\ []C7_ReachedDedupInWindow

\* A Japanese article published exactly 24 h before the test was kept and is
\* the one candidate that reached the dispatch.
C7_Witness ==
    /\ pc = "send"
    /\ \E k \in 1..Len(new_items) :
          /\ new_items[k].source = JP
          /\ new_items[k].published_at = Some(TzOffset - Window)
    /\ Len(all_candidates) = 1

\* ---- C9 ----------------------------------------------------------------
\* C9: the batch of a source is exactly the candidates whose detail page
\* resolved to a timestamp inside the window, in listing order, wherever the
\* candidates that failed sit; a failure ends neither the loop nor the run.
C9_OnlyFailingCandidateSkipped ==
    /\ Len(verdicts) <= Len(candidates)
    /\ Urls(recent) = KeptUrls(candidates, verdicts)
    /\ pc \in {"jp_loop", "kr_loop"} => Len(verdicts) = i - 1
    /\ \A k \in 1..Len(recent) : recent[k].published_at # None

\* The first candidate of a listing failed and the second one is in the batch.
C9_Witness ==
    /\ pc = "jp_loop"
    /\ Len(candidates) = 2
    /\ verdicts = << FALSE, TRUE >>
    /\ Len(recent) = 1
    /\ recent[1].url = candidates[2].url

\* ---- C10 ---------------------------------------------------------------
\* The dedup loop leaves the timestamp of a url already in the store alone.
C10_TimestampKept ==
    pc = "dedup"
        => \A u \in DOMAIN sent_storage :
              u \in DOMAIN sent_storage' => sent_storage'[u] = sent_storage[u]

\* No url is posted twice in a run, nor accepted twice as new.
C10_PostedOnce == NoDuplicates(dispatched) /\ NoDuplicates(Urls(new_items))

\* C10: in one run no url is posted twice, even when the merged candidates
\* hold it several times, and the dedup loop never changes the timestamp of a
\* url that is already in the store.
C10_OncePerRun == []C10_PostedOnce /\ [][C10_TimestampKept]_vars

\* A run whose merged candidates held one url twice posted it once.
C10_Witness ==
    /\ pc = "save"
    /\ Len(all_candidates) = 2
    /\ all_candidates[1].url = all_candidates[2].url
    /\ Len(dispatched) = 1

\* ---- C8 ----------------------------------------------------------------
RECURSIVE Concat(_)
Concat(ss) == IF ss = << >> THEN << >> ELSE Head(ss) \o Concat(Tail(ss))

\* The urls of the accepted anchors, in document order, inside the elements
\* strictly between the first start heading and the first element after it
\* that ends the section (or the end of the document); empty without a
\* start heading.
SectionUrls(doc, start(_), stop(_), accepted(_), base_url) ==
    LET starts == {h \in 1..Len(doc) : start(doc[h])}
    IN  IF starts = {} THEN << >>
        ELSE LET h == CHOOSE x \in starts : \A y \in starts : x <= y
                 ends == {e \in (h + 1)..Len(doc) : stop(doc[e])} \cup {Len(doc) + 1}
                 e == CHOOSE x \in ends : \A y \in ends : x <= y
                 urls(el) == LET as == SelectSeq(el.anchors, accepted)
                             IN  [k \in 1..Len(as) |-> urljoin(base_url, as[k].href)]
             IN  Concat([k \in 1..(e - h - 1) |-> urls(doc[h + k])])

StartJP(el) == el.name \in {"h2", "h3"} /\ el.text = "new"

StartKR(el) == el.name \in {"h2", "h3"} /\ el.text = "ai"

AnyHeading(el) == el.name \in {"h2", "h3"}

HotHeading(el) == el.name \in {"h2", "h3"} /\ el.text = "hot"

AcceptedJP(a) == a.has_href /\ a.title_len >= MinTitleLen

AcceptedKR(a) == a.has_href /\ a.href.path \in ViewPaths /\ a.title_len >= 1

ExtractedJPIs(stop(_)) ==
    extracted.jp # None
        => Urls(extracted.jp[1])
             = SectionUrls(soup, StartJP, stop, AcceptedJP, JAPAN_SOFTWARE_URL)

ExtractedKRIs(stop(_)) ==
    extracted.kr # None
        => Urls(extracted.kr[1])
             = SectionUrls(soup, StartKR, stop, AcceptedKR, KOREA_AI_URL)

\* C8 as stated: for both extractors the section ends at the first heading
\* that follows the start heading.
C8_SectionEndsAtNextHeading ==
    ExtractedJPIs(AnyHeading) /\ ExtractedKRIs(AnyHeading)

\* C8 amended: the Japanese section ends at the first following h2/h3; the
\* Korean section ends only at the first following h2/h3 whose text holds
\* the marker of the next section, and other headings in between do not end
\* it.
C8_SectionEndsAtStopHeading ==
    ExtractedJPIs(AnyHeading) /\ ExtractedKRIs(HotHeading)

\* A document with the Korean start heading, then the Japanese start heading,
\* then two links: the Korean extractor went past the second heading and
\* returned both links, the Japanese one returned the link with a long title.
C8_Witness ==
    /\ soup = << Tag("h2", "ai", << >>), Tag("h3", "new", << >>),
                 Div(<< aV1, aShort >>) >>
    /\ extracted.kr # None
    /\ Urls(extracted.kr[1]) = << urljoin(KOREA_AI_URL, aV1.href),
                                  urljoin(KOREA_AI_URL, aShort.href) >>
    /\ extracted.jp # None
    /\ Urls(extracted.jp[1]) = << urljoin(JAPAN_SOFTWARE_URL, aV1.href) >>

====
